---- MODULE Spec2Model ----
(***************************************************************************)
(* Model of cli/src/flags.rs: load_config, parse_flags and clean_args.     *)
(*                                                                         *)
(* One run of the tool: parse_flags(args) calls load_config(), builds the  *)
(* Flags value from the environment and the config tree, and scans args    *)
(* left to right; clean_args(args) then filters the same argument list.    *)
(* Rust's Option<T> is a sequence of length 0 (None) or 1 (Some).          *)
(* Rust's 0-based args[i] is args[i + 1] here.                             *)
(***************************************************************************)
EXTENDS Integers, Sequences, FiniteSets, TLC

VARIABLES args, env, fs, pc, config, flags, i, other, result, skip_next, k

vars == <<args, env, fs, pc, config, flags, i, other, result, skip_next, k>>

(***************************************************************************)
(* Bounds of the explored inputs.                                          *)
(***************************************************************************)
\* longest argument list drawn from the whole token alphabet
MaxArgs == 2
\* longest argument list drawn from one flag and the two plain tokens
MaxFocusArgs == 4

(***************************************************************************)
(* Option<T>                                                               *)
(***************************************************************************)
None == <<>>

Some(v) == <<v>>

\* a.or_else(|| b)
or_else(a, b) == IF a # None THEN a ELSE b

\* a.unwrap_or(d)
unwrap_or(a, d) == IF a # None THEN a[1] ELSE d

(***************************************************************************)
(* serde_json::Value, as far as flags.rs inspects it.                      *)
(***************************************************************************)
JNull == [t |-> "null"]

JBool(b) == [t |-> "bool", b |-> b]

JNum(n) == [t |-> "num", n |-> n]

JStr(s) == [t |-> "str", s |-> s]

JArr(a) == [t |-> "arr", a |-> a]

JObj(o) == [t |-> "obj", o |-> o]

\* the function with an empty domain: the member map of json!({})
EmptyMap == [x \in {} |-> JNull]

\* Value::get(key): None unless the value is an object holding the key
get(v, key) == IF v.t = "obj" /\ key \in DOMAIN v.o THEN Some(v.o[key]) ELSE None

as_bool(v) == IF v.t = "bool" THEN Some(v.b) ELSE None

as_str(v) == IF v.t = "str" THEN Some(v.s) ELSE None

as_array(v) == IF v.t = "arr" THEN Some(v.a) ELSE None

as_object(v) == IF v.t = "obj" THEN Some(v.o) ELSE None

\* opt.and_then(f) for the three accessors
and_then_bool(opt) == IF opt = None THEN None ELSE as_bool(opt[1])

and_then_str(opt) == IF opt = None THEN None ELSE as_str(opt[1])

and_then_array(opt) == IF opt = None THEN None ELSE as_array(opt[1])

(***************************************************************************)
(* The process environment and the file system.                            *)
(* A variable is unset, set to a string, or set to bytes that are not      *)
(* valid Unicode; env::var fails in the first and in the last case.        *)
(***************************************************************************)
Unset == [st |-> "unset", val |-> ""]

NotUnicode == [st |-> "notunicode", val |-> ""]

SetTo(s) == [st |-> "unicode", val |-> s]

\* env::var(name).ok()
env_var(e, name) == IF e[name].st = "unicode" THEN Some(e[name].val) ELSE None

\* env::var(name).is_ok()
env_is_ok(e, name) == e[name].st = "unicode"

\* a file is missing (or unreadable), holds text that is not JSON, or holds
\* a JSON document
Missing == [kind |-> "missing"]

Garbage == [kind |-> "garbage"]

Json(v) == [kind |-> "json", v |-> v]

\* fs::read_to_string(path).ok(): the file's text, here the file itself
read_to_string(files, dir) == IF files[dir].kind = "missing" THEN None ELSE Some(files[dir])

\* serde_json::from_str::<Value>(content).ok()
from_str(content) == IF content.kind = "json" THEN Some(content.v) ELSE None

\* directory of the project-level file (the current working directory)
Cwd == "."

(***************************************************************************)
(* load_config                                                             *)
(***************************************************************************)
\* for (key, value) in project { base.insert(key, value) }
insert_all(base, project) ==
    [key \in DOMAIN base \cup DOMAIN project |->
        IF key \in DOMAIN project THEN project[key] ELSE base[key]]

\* the user-level block: config = parsed for ANY parsed JSON value
user_layer(e, files, cfg) ==
    LET home == or_else(env_var(e, "HOME"), env_var(e, "USERPROFILE")) IN
    IF home = None THEN cfg
    ELSE LET content == read_to_string(files, home[1]) IN
         IF content = None THEN cfg
         ELSE LET parsed == from_str(content[1]) IN
              IF parsed = None THEN cfg ELSE parsed[1]

\* the project-level block: overlays only when both sides are objects
project_layer(files, cfg) ==
    LET content == read_to_string(files, Cwd) IN
    IF content = None THEN cfg
    ELSE LET parsed == from_str(content[1]) IN
         IF parsed = None THEN cfg
         ELSE IF as_object(cfg) # None /\ as_object(parsed[1]) # None
              THEN JObj(insert_all(cfg.o, parsed[1].o))
              ELSE cfg

load_config(e, files) == project_layer(files, user_layer(e, files, JObj(EmptyMap)))

(***************************************************************************)
(* String helpers of the AGENT_BROWSER_EXTENSIONS parse                    *)
(***************************************************************************)
\* position of the first sep in s, 0 when there is none
find(s, sep) ==
    IF \E p \in 1..Len(s) : SubSeq(s, p, p) = sep
    THEN CHOOSE p \in 1..Len(s) :
            /\ SubSeq(s, p, p) = sep
            /\ \A q \in 1..(p - 1) : SubSeq(s, q, q) # sep
    ELSE 0

RECURSIVE split(_, _)
\* s.split(sep): the pieces between separators, at least one piece
split(s, sep) ==
    LET p == find(s, sep) IN
    IF p = 0 THEN <<s>>
    ELSE <<SubSeq(s, 1, p - 1)>> \o split(SubSeq(s, p + 1, Len(s)), sep)

RECURSIVE trim_start(_)
trim_start(s) ==
    IF Len(s) > 0 /\ SubSeq(s, 1, 1) = " " THEN trim_start(SubSeq(s, 2, Len(s))) ELSE s

RECURSIVE trim_end(_)
trim_end(s) ==
    IF Len(s) > 0 /\ SubSeq(s, Len(s), Len(s)) = " "
    THEN trim_end(SubSeq(s, 1, Len(s) - 1)) ELSE s

\* p.trim()
trim(s) == trim_end(trim_start(s))

\* .map(|p| p.trim().to_string()).filter(|p| !p.is_empty()).collect()
trimmed_nonempty(pieces) ==
    SelectSeq([n \in 1..Len(pieces) |-> trim(pieces[n])], LAMBDA p : p # "")

\* the value of extensions_env
extensions_env(e) ==
    LET v == env_var(e, "AGENT_BROWSER_EXTENSIONS") IN
    IF v = None THEN <<>> ELSE trimmed_nonempty(split(v[1], ","))

\* arr.iter().filter_map(|v| v.as_str().map(String::from)).collect()
filter_map_str(arr) ==
    LET strs == SelectSeq(arr, LAMBDA v : as_str(v) # None) IN
    [n \in 1..Len(strs) |-> strs[n].s]

(***************************************************************************)
(* parse_flags: the Flags value before the scan                            *)
(***************************************************************************)
\* faulty variant of env_or_config: the config key is consulted first
env_or_config_config_first(e, cfg, name, key) ==
    or_else(and_then_str(get(cfg, key)), env_var(e, name))

\* env::var(name).ok().or_else(|| config.get(key).and_then(as_str))
env_or_config(e, cfg, name, key) == or_else(env_var(e, name), and_then_str(get(cfg, key)))

\* env::var(name).is_ok() || config.get(key).and_then(as_bool).unwrap_or(false)
env_or_config_bool(e, cfg, name, key) ==
    env_is_ok(e, name) \/ unwrap_or(and_then_bool(get(cfg, key)), FALSE)

\* the extensions field: the environment list unless it is empty
extensions_init(e, cfg) ==
    IF extensions_env(e) # <<>> THEN extensions_env(e)
    ELSE LET arr == and_then_array(get(cfg, "extensions")) IN
         IF arr = None THEN <<>> ELSE filter_map_str(arr[1])

initial_flags(e, cfg) ==
    [ json |-> FALSE,
      full |-> FALSE,
      headed |-> env_or_config_bool(e, cfg, "AGENT_BROWSER_HEADED", "headed"),
      debug |-> FALSE,
      session |-> unwrap_or(env_or_config(e, cfg, "AGENT_BROWSER_SESSION", "session"), "default"),
      headers |-> None,
      executable_path |-> env_or_config(e, cfg, "AGENT_BROWSER_EXECUTABLE_PATH", "executablePath"),
      cdp |-> None,
      extensions |-> extensions_init(e, cfg),
      profile |-> env_or_config(e, cfg, "AGENT_BROWSER_PROFILE", "profile"),
      state |-> env_or_config(e, cfg, "AGENT_BROWSER_STATE", "state"),
      proxy |-> env_or_config(e, cfg, "AGENT_BROWSER_PROXY", "proxy"),
      proxy_bypass |-> env_or_config(e, cfg, "AGENT_BROWSER_PROXY_BYPASS", "proxyBypass"),
      args |-> env_or_config(e, cfg, "AGENT_BROWSER_ARGS", "args"),
      user_agent |-> env_or_config(e, cfg, "AGENT_BROWSER_USER_AGENT", "userAgent"),
      provider |-> env_or_config(e, cfg, "AGENT_BROWSER_PROVIDER", "provider"),
      ignore_https_errors |-> unwrap_or(and_then_bool(get(cfg, "ignoreHttpsErrors")), FALSE),
      allow_file_access |->
          env_or_config_bool(e, cfg, "AGENT_BROWSER_ALLOW_FILE_ACCESS", "allowFileAccess"),
      device |-> env_or_config(e, cfg, "AGENT_BROWSER_IOS_DEVICE", "device"),
      auto_connect |-> env_or_config_bool(e, cfg, "AGENT_BROWSER_AUTO_CONNECT", "autoConnect"),
      session_name |-> env_or_config(e, cfg, "AGENT_BROWSER_SESSION_NAME", "sessionName"),
      cli_executable_path |-> FALSE,
      cli_extensions |-> FALSE,
      cli_profile |-> FALSE,
      cli_state |-> FALSE,
      cli_args |-> FALSE,
      cli_user_agent |-> FALSE,
      cli_proxy |-> FALSE,
      cli_proxy_bypass |-> FALSE,
      cli_allow_file_access |-> FALSE ]

(***************************************************************************)
(* parse_flags: one iteration of the scan loop.                            *)
(* S = [f |-> flags, i |-> cursor, other |-> tokens that reached `_ => {}`]*)
(***************************************************************************)
\* args.get(n), n counted from 0
arg_get(a, n) == IF n >= 0 /\ n < Len(a) THEN Some(a[n + 1]) ELSE None

\* faulty variant of set_true: the flag toggles the field
set_true_toggling(S, field) == [S EXCEPT !.f[field] = ~@]

\* a value-less arm: flags.field = true
set_true(S, field) == [S EXCEPT !.f[field] = TRUE]

\* "--allow-file-access": the field and its provenance flag
set_true_cli(S, field, cli) == [S EXCEPT !.f[field] = TRUE, !.f[cli] = TRUE]

\* faulty variant of store_string: i += 1 outside the if let
store_string_always_advancing(S, a, field) ==
    LET v == arg_get(a, S.i + 1) IN
    IF v = None THEN [S EXCEPT !.i = S.i + 1]
    ELSE [S EXCEPT !.f[field] = v[1], !.i = S.i + 1]

\* "--session": if let Some(s) = args.get(i + 1) { flags.session = s; i += 1 }
store_string(S, a, field) ==
    LET v == arg_get(a, S.i + 1) IN
    IF v = None THEN S
    ELSE [S EXCEPT !.f[field] = v[1], !.i = S.i + 1]

\* faulty variant of store_some: reads args.get(i), the flag itself
store_some_current_token(S, a, field) ==
    LET v == arg_get(a, S.i) IN
    IF arg_get(a, S.i + 1) = None THEN S
    ELSE [S EXCEPT !.f[field] = Some(v[1]), !.i = S.i + 1]

\* a value-taking arm without provenance: flags.field = Some(s); i += 1
store_some(S, a, field) ==
    LET v == arg_get(a, S.i + 1) IN
    IF v = None THEN S
    ELSE [S EXCEPT !.f[field] = Some(v[1]), !.i = S.i + 1]

\* faulty variant of store_some_cli: the provenance flag is set before the
\* following token is looked for
store_some_cli_eager_provenance(S, a, field, cli) ==
    LET v == arg_get(a, S.i + 1) IN
    IF v = None THEN [S EXCEPT !.f[cli] = TRUE]
    ELSE [S EXCEPT !.f[field] = Some(v[1]), !.f[cli] = TRUE, !.i = S.i + 1]

\* a value-taking arm with provenance: flags.field = Some(s); flags.cli = true; i += 1
store_some_cli(S, a, field, cli) ==
    LET v == arg_get(a, S.i + 1) IN
    IF v = None THEN S
    ELSE [S EXCEPT !.f[field] = Some(v[1]), !.f[cli] = TRUE, !.i = S.i + 1]

\* faulty variant of push_extension: the list is replaced, not extended
push_extension_replacing(S, a) ==
    LET v == arg_get(a, S.i + 1) IN
    IF v = None THEN S
    ELSE [S EXCEPT !.f.extensions = <<v[1]>>, !.f.cli_extensions = TRUE, !.i = S.i + 1]

\* "--extension": flags.extensions.push(s); flags.cli_extensions = true; i += 1
push_extension(S, a) ==
    LET v == arg_get(a, S.i + 1) IN
    IF v = None THEN S
    ELSE [S EXCEPT !.f.extensions = Append(@, v[1]), !.f.cli_extensions = TRUE, !.i = S.i + 1]

\* match args[i].as_str() { ... }
match_arg(S, a) ==
    LET tok == a[S.i + 1] IN
    CASE tok = "--json" -> set_true(S, "json")
      [] tok \in {"--full", "-f"} -> set_true(S, "full")
      [] tok = "--headed" -> set_true(S, "headed")
      [] tok = "--debug" -> set_true(S, "debug")
      [] tok = "--session" -> store_string(S, a, "session")
      [] tok = "--headers" -> store_some(S, a, "headers")
      [] tok = "--executable-path" -> store_some_cli(S, a, "executable_path", "cli_executable_path")
      [] tok = "--extension" -> push_extension(S, a)
      [] tok = "--cdp" -> store_some(S, a, "cdp")
      [] tok = "--profile" -> store_some_cli(S, a, "profile", "cli_profile")
      [] tok = "--state" -> store_some_cli(S, a, "state", "cli_state")
      [] tok = "--proxy" -> store_some_cli(S, a, "proxy", "cli_proxy")
      [] tok = "--proxy-bypass" -> store_some_cli(S, a, "proxy_bypass", "cli_proxy_bypass")
      [] tok = "--args" -> store_some_cli(S, a, "args", "cli_args")
      [] tok = "--user-agent" -> store_some_cli(S, a, "user_agent", "cli_user_agent")
      [] tok \in {"-p", "--provider"} -> store_some(S, a, "provider")
      [] tok = "--ignore-https-errors" -> set_true(S, "ignore_https_errors")
      [] tok = "--allow-file-access" -> set_true_cli(S, "allow_file_access", "cli_allow_file_access")
      [] tok = "--device" -> store_some(S, a, "device")
      [] tok = "--auto-connect" -> set_true(S, "auto_connect")
      [] tok = "--session-name" -> store_some(S, a, "session_name")
      [] OTHER -> [S EXCEPT !.other = Append(@, tok)]

\* the loop body: the match, then i += 1
scan_body(S, a) ==
    LET T == match_arg(S, a) IN [T EXCEPT !.i = T.i + 1]

(***************************************************************************)
(* clean_args                                                              *)
(***************************************************************************)
\* faulty variant of GLOBAL_FLAGS: "--debug" is missing from the table
GLOBAL_FLAGS_without_debug ==
    { "--json", "--full", "--headed", "--ignore-https-errors",
      "--allow-file-access", "--auto-connect" }

GLOBAL_FLAGS ==
    { "--json", "--full", "--headed", "--debug", "--ignore-https-errors",
      "--allow-file-access", "--auto-connect" }

\* faulty variant of GLOBAL_FLAGS_WITH_VALUE: "--device" is missing from the table
GLOBAL_FLAGS_WITH_VALUE_without_device ==
    { "--session", "--headers", "--executable-path", "--cdp", "--extension",
      "--profile", "--state", "--proxy", "--proxy-bypass", "--args",
      "--user-agent", "-p", "--provider", "--session-name" }

GLOBAL_FLAGS_WITH_VALUE ==
    { "--session", "--headers", "--executable-path", "--cdp", "--extension",
      "--profile", "--state", "--proxy", "--proxy-bypass", "--args",
      "--user-agent", "-p", "--provider", "--device", "--session-name" }

\* faulty variant of clean_body: surviving tokens are put in front
clean_body_prepending(C, arg) ==
    IF C.skip_next THEN [C EXCEPT !.skip_next = FALSE]
    ELSE IF arg \in GLOBAL_FLAGS_WITH_VALUE THEN [C EXCEPT !.skip_next = TRUE]
    ELSE IF arg \in GLOBAL_FLAGS \/ arg = "-f" THEN C
    ELSE [C EXCEPT !.result = <<arg>> \o @]

\* one iteration of `for arg in args.iter()`;
\* C = [result |-> result, skip_next |-> skip_next], arg the current token
clean_body(C, arg) ==
    IF C.skip_next THEN [C EXCEPT !.skip_next = FALSE]
    ELSE IF arg \in GLOBAL_FLAGS_WITH_VALUE THEN [C EXCEPT !.skip_next = TRUE]
    ELSE IF arg \in GLOBAL_FLAGS \/ arg = "-f" THEN C
    ELSE [C EXCEPT !.result = Append(@, arg)]

RECURSIVE clean_from(_, _, _)
\* the rest of the loop from the n-th token on
clean_from(C, a, n) ==
    IF n > Len(a) THEN C.result ELSE clean_from(clean_body(C, a[n]), a, n + 1)

\* clean_args as a function of its argument list
clean_args(a) == clean_from([result |-> <<>>, skip_next |-> FALSE], a, 1)

(***************************************************************************)
(* Inputs: argument lists, environments and file systems.                  *)
(***************************************************************************)
\* every flag spelling the tool documents, and two tokens that are no flag
AllFlagTokens ==
    { "--json", "--full", "-f", "--headed", "--debug", "--ignore-https-errors",
      "--allow-file-access", "--auto-connect",
      "--session", "--headers", "--executable-path", "--cdp", "--extension",
      "--profile", "--state", "--proxy", "--proxy-bypass", "--args",
      "--user-agent", "-p", "--provider", "--device", "--session-name" }

PlainTokens == {"a", "b"}

Tokens == AllFlagTokens \cup PlainTokens

SeqUpTo(S, n) == UNION {[1..m -> S] : m \in 0..n}

\* short lists over every token, longer ones around each single flag
ArgLists ==
    SeqUpTo(Tokens, MaxArgs)
    \cup UNION {SeqUpTo({tok} \cup PlainTokens, MaxFocusArgs) : tok \in AllFlagTokens}

\* the options that have an environment variable and a config key
OptionTable ==
    { [field |-> "headed", env |-> "AGENT_BROWSER_HEADED", key |-> "headed", kind |-> "bool", flag |-> "--headed"],
      [field |-> "session", env |-> "AGENT_BROWSER_SESSION", key |-> "session", kind |-> "string", flag |-> "--session"],
      [field |-> "executable_path", env |-> "AGENT_BROWSER_EXECUTABLE_PATH", key |-> "executablePath", kind |-> "opt", flag |-> "--executable-path"],
      [field |-> "extensions", env |-> "AGENT_BROWSER_EXTENSIONS", key |-> "extensions", kind |-> "list", flag |-> "--extension"],
      [field |-> "profile", env |-> "AGENT_BROWSER_PROFILE", key |-> "profile", kind |-> "opt", flag |-> "--profile"],
      [field |-> "state", env |-> "AGENT_BROWSER_STATE", key |-> "state", kind |-> "opt", flag |-> "--state"],
      [field |-> "proxy", env |-> "AGENT_BROWSER_PROXY", key |-> "proxy", kind |-> "opt", flag |-> "--proxy"],
      [field |-> "proxy_bypass", env |-> "AGENT_BROWSER_PROXY_BYPASS", key |-> "proxyBypass", kind |-> "opt", flag |-> "--proxy-bypass"],
      [field |-> "args", env |-> "AGENT_BROWSER_ARGS", key |-> "args", kind |-> "opt", flag |-> "--args"],
      [field |-> "user_agent", env |-> "AGENT_BROWSER_USER_AGENT", key |-> "userAgent", kind |-> "opt", flag |-> "--user-agent"],
      [field |-> "provider", env |-> "AGENT_BROWSER_PROVIDER", key |-> "provider", kind |-> "opt", flag |-> "--provider"],
      [field |-> "allow_file_access", env |-> "AGENT_BROWSER_ALLOW_FILE_ACCESS", key |-> "allowFileAccess", kind |-> "bool", flag |-> "--allow-file-access"],
      [field |-> "device", env |-> "AGENT_BROWSER_IOS_DEVICE", key |-> "device", kind |-> "opt", flag |-> "--device"],
      [field |-> "auto_connect", env |-> "AGENT_BROWSER_AUTO_CONNECT", key |-> "autoConnect", kind |-> "bool", flag |-> "--auto-connect"],
      [field |-> "session_name", env |-> "AGENT_BROWSER_SESSION_NAME", key |-> "sessionName", kind |-> "opt", flag |-> "--session-name"] }

OptionEnvNames == {o.env : o \in OptionTable}

EnvNames == {"HOME", "USERPROFILE"} \cup OptionEnvNames

ConfigKeys == {o.key : o \in OptionTable} \cup {"ignoreHttpsErrors"}

HomeDir == "/home"

ProfileDir == "/profile"

Dirs == {HomeDir, ProfileDir, Cwd}

NoFiles == [d \in Dirs |-> Missing]

\* a well-typed value for a config key
TypicalValue(key) ==
    IF key \in {"headed", "ignoreHttpsErrors", "allowFileAccess", "autoConnect"} THEN JBool(TRUE)
    ELSE IF key = "extensions" THEN JArr(<<JStr("c1"), JStr("c2")>>)
    ELSE JStr("c")

\* --- inputs of Spec: every argument list with nothing set, and with every
\* variable and every config key set
EnvNone == [n \in EnvNames |-> Unset]

EnvAll ==
    [n \in EnvNames |->
        IF n \in {"HOME", "USERPROFILE"} THEN Unset
        ELSE IF n = "AGENT_BROWSER_EXTENSIONS" THEN SetTo("e1, e2")
        ELSE SetTo("e")]

ProjectFileAll == [NoFiles EXCEPT ![Cwd] = Json(JObj([key \in ConfigKeys |-> TypicalValue(key)]))]

Surroundings ==
    { [env |-> EnvNone, fs |-> NoFiles],
      [env |-> EnvAll, fs |-> ProjectFileAll] }

\* --- inputs of SpecEnv: one option's variable and key vary, the others agree
EnvStates == {Unset, NotUnicode, SetTo("e"), SetTo(""), SetTo(" , "), SetTo(" e1,,e2 ")}

OtherEnvStates == {Unset, SetTo("o")}

\* "absent" stands for a key the object does not hold
ConfigStates ==
    { [has |-> FALSE, v |-> JNull],
      [has |-> TRUE, v |-> JNull],
      [has |-> TRUE, v |-> JStr("c")],
      [has |-> TRUE, v |-> JBool(TRUE)],
      [has |-> TRUE, v |-> JBool(FALSE)],
      [has |-> TRUE, v |-> JArr(<<JStr("c1"), JNum(1), JStr("c2")>>)] }

EnvFor(o, st, rest) ==
    [n \in EnvNames |->
        IF n = o.env THEN st
        ELSE IF n = "HOME" THEN SetTo(HomeDir)
        ELSE IF n = "USERPROFILE" THEN Unset
        ELSE rest]

ConfigFor(o, cs, restHas) ==
    LET restKeys == IF restHas THEN ConfigKeys \ {o.key} ELSE {}
        ownKeys == IF cs.has THEN {o.key} ELSE {}
    IN JObj([key \in restKeys \cup ownKeys |-> IF key = o.key THEN cs.v ELSE TypicalValue(key)])

EnvArgLists(o) == {<<>>, <<"open", "a">>, <<o.flag, "a">>}

\* --- inputs of SpecConfig: the two config files and the home directory vary
ConfigDocs ==
    { JObj([key \in ks |-> IF key = "profile" THEN pv ELSE JBool(TRUE)]) :
          ks \in SUBSET {"profile", "headed"},
          pv \in {JStr("u"), JObj([x \in {"profile"} |-> JStr("n")])} }
    \cup {JArr(<<>>), JStr("s"), JNull}

FileStates == {Missing, Garbage} \cup {Json(d) : d \in ConfigDocs}

HomeStates == {Unset, NotUnicode, SetTo(HomeDir)}

UserProfileStates == {Unset, SetTo(ProfileDir)}

ConfigArgLists == {<<"--profile", "a", "open">>}

(***************************************************************************)
(* The state machine                                                       *)
(***************************************************************************)
Start(a, e, files) ==
    /\ args = a
    /\ env = e
    /\ fs = files
    /\ pc = "load"
    /\ config = JObj(EmptyMap)
    /\ flags = None
    /\ i = 0
    /\ other = <<>>
    /\ result = <<>>
    /\ skip_next = FALSE
    /\ k = 0

Init == \E a \in ArgLists, s \in Surroundings : Start(a, s.env, s.fs)

InitEnv ==
    \E o \in OptionTable, st \in EnvStates, rest \in OtherEnvStates,
       cs \in ConfigStates, restHas \in BOOLEAN, dir \in {HomeDir, Cwd} :
      \E a \in EnvArgLists(o) :
        Start(a, EnvFor(o, st, rest), [NoFiles EXCEPT ![dir] = Json(ConfigFor(o, cs, restHas))])

InitConfig ==
    \E h \in HomeStates, u \in UserProfileStates, files \in [Dirs -> FileStates],
       a \in ConfigArgLists :
        Start(a, [EnvNone EXCEPT !["HOME"] = h, !["USERPROFILE"] = u], files)

\* parse_flags: let config = load_config();
LoadConfig ==
    /\ pc = "load"
    /\ config' = load_config(env, fs)
    /\ pc' = "flags"
    /\ UNCHANGED <<args, env, fs, flags, i, other, result, skip_next, k>>

\* parse_flags: let mut flags = Flags { ... }; let mut i = 0;
BuildFlags ==
    /\ pc = "flags"
    /\ flags' = initial_flags(env, config)
    /\ i' = 0
    /\ pc' = "scan"
    /\ UNCHANGED <<args, env, fs, config, other, result, skip_next, k>>

\* parse_flags: one iteration of while i < args.len()
ScanStep ==
    /\ pc = "scan"
    /\ i < Len(args)
    /\ LET T == scan_body([f |-> flags, i |-> i, other |-> other], args) IN
        /\ flags' = T.f
        /\ i' = T.i
        /\ other' = T.other
    /\ UNCHANGED <<args, env, fs, pc, config, result, skip_next, k>>

\* parse_flags returns; clean_args starts with an empty result
ScanExit ==
    /\ pc = "scan"
    /\ i >= Len(args)
    /\ pc' = "clean"
    /\ result' = <<>>
    /\ skip_next' = FALSE
    /\ k' = 0
    /\ UNCHANGED <<args, env, fs, config, flags, i, other>>

\* clean_args: one iteration of for arg in args.iter()
CleanStep ==
    /\ pc = "clean"
    /\ k < Len(args)
    /\ LET C == clean_body([result |-> result, skip_next |-> skip_next], args[k + 1]) IN
        /\ result' = C.result
        /\ skip_next' = C.skip_next
    /\ k' = k + 1
    /\ UNCHANGED <<args, env, fs, pc, config, flags, i, other>>

\* clean_args returns result
CleanExit ==
    /\ pc = "clean"
    /\ k >= Len(args)
    /\ pc' = "done"
    /\ UNCHANGED <<args, env, fs, config, flags, i, other, result, skip_next, k>>

Next == LoadConfig \/ BuildFlags \/ ScanStep \/ ScanExit \/ CleanStep \/ CleanExit

Spec == Init /\ [][Next]_vars

SpecEnv == InitEnv /\ [][Next]_vars

SpecConfig == InitConfig /\ [][Next]_vars

(***************************************************************************)
(* The documented flag grammar, used to state the properties.              *)
(***************************************************************************)
ValueLessFlags ==
    { "--json", "--full", "-f", "--headed", "--debug", "--ignore-https-errors",
      "--allow-file-access", "--auto-connect" }

ValueTakingFlags ==
    { "--session", "--headers", "--executable-path", "--cdp", "--extension",
      "--profile", "--state", "--proxy", "--proxy-bypass", "--args",
      "--user-agent", "-p", "--provider", "--device", "--session-name" }

GlobalFlags == ValueLessFlags \cup ValueTakingFlags

RECURSIVE InFlagPos(_, _)
\* the n-th token is read as a flag or an argument, not as the value of the
\* value-taking flag before it
InFlagPos(a, n) ==
    IF n <= 1 THEN TRUE
    ELSE ~(a[n - 1] \in ValueTakingFlags /\ InFlagPos(a, n - 1))

\* the n-th token is consumed as a global flag or as the value of one
Consumed(a, n) == ~InFlagPos(a, n) \/ a[n] \in GlobalFlags

\* the tokens of a at the positions satisfying Keep, in order
PickTokens(a, Keep(_)) ==
    LET idx == SelectSeq([n \in 1..Len(a) |-> n], Keep) IN
    [m \in 1..Len(idx) |-> a[idx[m]]]

RECURSIVE IsSubseq(_, _)
IsSubseq(s, t) ==
    IF s = <<>> THEN TRUE
    ELSE IF t = <<>> THEN FALSE
    ELSE IF Head(s) = Head(t) THEN IsSubseq(Tail(s), Tail(t))
    ELSE IsSubseq(s, Tail(t))

Max(S) == CHOOSE x \in S : \A y \in S : y <= x

\* the value-taking flags that replace their field
ReplacingFlags ==
    { [names |-> {"--session"}, field |-> "session", kind |-> "string"],
      [names |-> {"--headers"}, field |-> "headers", kind |-> "opt"],
      [names |-> {"--executable-path"}, field |-> "executable_path", kind |-> "opt"],
      [names |-> {"--cdp"}, field |-> "cdp", kind |-> "opt"],
      [names |-> {"--profile"}, field |-> "profile", kind |-> "opt"],
      [names |-> {"--state"}, field |-> "state", kind |-> "opt"],
      [names |-> {"--proxy"}, field |-> "proxy", kind |-> "opt"],
      [names |-> {"--proxy-bypass"}, field |-> "proxy_bypass", kind |-> "opt"],
      [names |-> {"--args"}, field |-> "args", kind |-> "opt"],
      [names |-> {"--user-agent"}, field |-> "user_agent", kind |-> "opt"],
      [names |-> {"-p", "--provider"}, field |-> "provider", kind |-> "opt"],
      [names |-> {"--device"}, field |-> "device", kind |-> "opt"],
      [names |-> {"--session-name"}, field |-> "session_name", kind |-> "opt"] }

\* a token as the value of a field of the given kind
AsField(kind, tok) == IF kind = "string" THEN tok ELSE Some(tok)

\* the provenance flag of each value-taking flag that has one
ProvenanceFlags ==
    { [flag |-> "--executable-path", cli |-> "cli_executable_path"],
      [flag |-> "--extension", cli |-> "cli_extensions"],
      [flag |-> "--profile", cli |-> "cli_profile"],
      [flag |-> "--state", cli |-> "cli_state"],
      [flag |-> "--args", cli |-> "cli_args"],
      [flag |-> "--user-agent", cli |-> "cli_user_agent"],
      [flag |-> "--proxy", cli |-> "cli_proxy"],
      [flag |-> "--proxy-bypass", cli |-> "cli_proxy_bypass"] }

BoolFlags ==
    { [names |-> {"--json"}, field |-> "json"],
      [names |-> {"--full", "-f"}, field |-> "full"],
      [names |-> {"--headed"}, field |-> "headed"],
      [names |-> {"--debug"}, field |-> "debug"],
      [names |-> {"--ignore-https-errors"}, field |-> "ignore_https_errors"],
      [names |-> {"--allow-file-access"}, field |-> "allow_file_access"],
      [names |-> {"--auto-connect"}, field |-> "auto_connect"] }

\* parse_flags has returned
Parsed == pc \in {"clean", "done"}

\* the Flags value the scan started from
PreCli == initial_flags(env, config)

\* positions of a flag that have a following token
Occurrences(names) == {n \in 1..(Len(args) - 1) : args[n] \in names}

\* those of them that the scan reads in flag position
ScannedOccurrences(names) == {n \in Occurrences(names) : InFlagPos(args, n)}

(***************************************************************************)
(* C1                                                                      *)
(***************************************************************************)
\* C1: parse_flags and clean_args agree on token consumption: the tokens
\* clean_args returns are exactly, in the same order, the tokens at which the
\* scan of parse_flags took the unrecognized-token branch, and these are the
\* tokens that are neither a global flag in flag position nor the value of a
\* value-taking global flag.
TokenConsumptionAgrees ==
    pc = "done" =>
        /\ result = other
        /\ result = PickTokens(args, LAMBDA n : ~Consumed(args, n))

\* a run with a consumed value, a surviving token and a value-taking flag
\* as the last token
TokenConsumptionWitness ==
    /\ pc = "done"
    /\ Len(args) >= 3
    /\ args[Len(args)] \in ValueTakingFlags
    /\ InFlagPos(args, Len(args))
    /\ \E n \in 1..Len(args) : ~InFlagPos(args, n)
    /\ result # <<>>
    /\ result = other

(***************************************************************************)
(* C7                                                                      *)
(***************************************************************************)
\* C7: clean_args(args) is a subsequence of args (order kept, tokens copied
\* unchanged), and when args holds no global flag at all it is args itself.
CleanIsSubsequence ==
    pc = "done" =>
        /\ IsSubseq(result, args)
        /\ (\A n \in 1..Len(args) : args[n] \notin GlobalFlags) => result = args

\* a run that dropped some tokens and kept at least two others
CleanIsSubsequenceWitness ==
    /\ pc = "done"
    /\ Len(result) >= 2
    /\ Len(result) < Len(args)
    /\ result[1] # result[2]
    /\ IsSubseq(result, args)

(***************************************************************************)
(* C10                                                                     *)
(***************************************************************************)
\* C10: the output of clean_args holds no token of either global-flag set,
\* wherever the flags stood in the input, and so cleaning it again changes
\* nothing: clean_args(clean_args(args)) = clean_args(args).
CleanOutputHasNoGlobalFlag ==
    pc = "done" =>
        /\ \A n \in 1..Len(result) : result[n] \notin GlobalFlags
        /\ clean_args(result) = result

\* a run with a global flag first, one last, and a surviving token between
CleanOutputWitness ==
    /\ pc = "done"
    /\ Len(args) >= 3
    /\ args[1] \in GlobalFlags
    /\ args[Len(args)] \in ValueLessFlags
    /\ InFlagPos(args, Len(args))
    /\ result # <<>>
    /\ clean_args(result) = result

(***************************************************************************)
(* C2                                                                      *)
(***************************************************************************)
\* the variable of option o is set (and readable as a string)
EnvSet(o) == env[o.env].st = "unicode"

\* the config tree defines the key of option o
KeySet(o) == config.t = "obj" /\ o.key \in DOMAIN config.o

FlagNames(o) == IF o.flag = "--provider" THEN {"-p", "--provider"} ELSE {o.flag}

NoCliFlag(o) == \A n \in 1..Len(args) : args[n] \notin FlagNames(o)

\* the field value the environment variable of option o stands for
FromEnv(o) ==
    CASE o.kind = "bool" -> TRUE
      [] o.kind = "string" -> env[o.env].val
      [] o.kind = "opt" -> Some(env[o.env].val)
      [] o.kind = "list" -> trimmed_nonempty(split(env[o.env].val, ","))

\* C2 as stated: for every option with an environment variable and a config
\* key, both set, and no CLI flag of the option in args, the field returned by
\* parse_flags holds the value derived from the environment variable.
EnvWinsForEveryOption ==
    Parsed =>
        \A o \in OptionTable :
            (EnvSet(o) /\ KeySet(o) /\ NoCliFlag(o)) => flags[o.field] = FromEnv(o)

\* C2: the same, where for extensions the environment variable must yield at
\* least one non-empty entry (an environment list without entries gives way
\* to the config list).
EnvWins ==
    Parsed =>
        \A o \in OptionTable :
            (/\ EnvSet(o)
             /\ KeySet(o)
             /\ NoCliFlag(o)
             /\ o.kind = "list" => FromEnv(o) # <<>>)
            => flags[o.field] = FromEnv(o)

\* the environment list and a config list are both there, the field is the
\* environment's, and a string option is decided the same way
EnvWinsWitness ==
    /\ Parsed
    /\ \E o \in OptionTable :
        /\ o.kind = "list"
        /\ EnvSet(o) /\ KeySet(o) /\ NoCliFlag(o)
        /\ config.o[o.key].t = "arr"
        /\ Len(FromEnv(o)) = 2
        /\ flags[o.field] = FromEnv(o)
        /\ flags[o.field] # filter_map_str(config.o[o.key].a)
    /\ flags.profile = Some("o")
    /\ get(config, "profile") = Some(JStr("c"))

(***************************************************************************)
(* C3                                                                      *)
(***************************************************************************)
\* C3 as stated: for every value-taking flag but --extension, if the flag is
\* in args with a following token, the field equals the token that follows
\* its last such occurrence.
LastOccurrenceWinsAnywhere ==
    Parsed =>
        \A v \in ReplacingFlags :
            Occurrences(v.names) # {} =>
                flags[v.field] = AsField(v.kind, args[Max(Occurrences(v.names)) + 1])

\* C3: for every value-taking flag but --extension, if the scan reads the flag
\* in flag position (not as the value of the value-taking flag before it) with
\* a following token, the field equals the token that follows the last such
\* occurrence, whatever the environment and the config files supplied.
LastOccurrenceWins ==
    Parsed =>
        \A v \in ReplacingFlags :
            ScannedOccurrences(v.names) # {} =>
                flags[v.field] = AsField(v.kind, args[Max(ScannedOccurrences(v.names)) + 1])

\* a flag given twice with different values over a value from the environment
LastOccurrenceWinsWitness ==
    /\ Parsed
    /\ \E v \in ReplacingFlags :
        /\ Cardinality(ScannedOccurrences(v.names)) = 2
        /\ \E m, n \in ScannedOccurrences(v.names) : m < n /\ args[m + 1] # args[n + 1]
        /\ PreCli[v.field] = AsField(v.kind, "e")
        /\ flags[v.field] = AsField(v.kind, args[Max(ScannedOccurrences(v.names)) + 1])

(***************************************************************************)
(* C4                                                                      *)
(***************************************************************************)
\* C4 as stated: each provenance flag is true iff its CLI flag appears in
\* args with a following token; cli_allow_file_access is true iff
\* --allow-file-access appears in args.
ProvenanceIffAppears ==
    Parsed =>
        /\ \A p \in ProvenanceFlags : flags[p.cli] <=> Occurrences({p.flag}) # {}
        /\ flags.cli_allow_file_access <=>
               \E n \in 1..Len(args) : args[n] = "--allow-file-access"

\* C4: each provenance flag is true iff the scan reads its CLI flag in flag
\* position with a following token; it is false when the value came from the
\* environment or a config file only, and no flag sets another's provenance.
\* cli_allow_file_access is true iff --allow-file-access is read in flag
\* position.
ProvenanceIffScanned ==
    Parsed =>
        /\ \A p \in ProvenanceFlags : flags[p.cli] <=> ScannedOccurrences({p.flag}) # {}
        /\ flags.cli_allow_file_access <=>
               \E n \in 1..Len(args) : args[n] = "--allow-file-access" /\ InFlagPos(args, n)

\* one flag given on the command line, the others set by the environment or
\* the config file only
ProvenanceWitness ==
    /\ Parsed
    /\ \E p \in ProvenanceFlags :
        /\ flags[p.cli]
        /\ \A q \in ProvenanceFlags \ {p} : ~flags[q.cli]
    /\ flags.executable_path # None
    /\ flags.state # None
    /\ flags.extensions # <<>>
    /\ flags.allow_file_access
    /\ ~flags.cli_allow_file_access

(***************************************************************************)
(* C5                                                                      *)
(***************************************************************************)
\* the tokens that follow the positions satisfying Keep, in order
ValuesAfter(Keep(_)) ==
    LET idx == SelectSeq([n \in 1..Len(args) |-> n], Keep) IN
    [m \in 1..Len(idx) |-> args[idx[m] + 1]]

\* C5 as stated: the extensions list is the list from the environment or the
\* config file followed by the token after each --extension that has a
\* following token, in order.
ExtensionsAppendEveryOccurrence ==
    Parsed =>
        flags.extensions =
            PreCli.extensions \o ValuesAfter(LAMBDA n : n \in Occurrences({"--extension"}))

\* C5: --extension is cumulative: the extensions list is the list from the
\* environment or the config file followed by the token after each
\* --extension that the scan reads in flag position with a following token, in
\* the order they occur; nothing is removed, replaced or reordered.
ExtensionsAppendScanned ==
    Parsed =>
        flags.extensions =
            PreCli.extensions \o ValuesAfter(LAMBDA n : n \in ScannedOccurrences({"--extension"}))

\* --extension a --extension b after a list from the environment
ExtensionsWitness ==
    /\ Parsed
    /\ Len(PreCli.extensions) = 2
    /\ Cardinality(ScannedOccurrences({"--extension"})) = 2
    /\ Len(flags.extensions) = 4
    /\ flags.extensions[3] # flags.extensions[4]
    /\ SubSeq(flags.extensions, 1, 2) = PreCli.extensions

(***************************************************************************)
(* C8                                                                      *)
(***************************************************************************)
ValueFlags ==
    ReplacingFlags \cup {[names |-> {"--extension"}, field |-> "extensions", kind |-> "list"]}

\* the provenance flags of a value-taking flag
CliOf(v) == {p.cli : p \in {q \in ProvenanceFlags : q.flag \in v.names}}

\* the scan reads a value-taking flag of v as the last token
LastTokenIs(v) ==
    /\ Len(args) >= 1
    /\ args[Len(args)] \in v.names
    /\ InFlagPos(args, Len(args))

\* C8 as stated: when a value-taking flag is the last token, its field is the
\* value from the environment/config resolution, its provenance flag is
\* false, and the cursor ends at the end of args.
LastFlagKeepsPreCli ==
    Parsed =>
        \A v \in ValueFlags :
            LastTokenIs(v) =>
                /\ flags[v.field] = PreCli[v.field]
                /\ \A c \in CliOf(v) : ~flags[c]
                /\ i = Len(args)

\* C8: the step that reads a value-taking flag as the last token changes no
\* field and no provenance flag and advances the cursor by exactly one, to
\* the end of args; so the field is the environment/config value and the
\* provenance flag is false unless an earlier occurrence of the flag was
\* applied.
LastFlagIgnored ==
    /\ [][(/\ pc = "scan"
           /\ i >= 0
           /\ i = Len(args) - 1
           /\ args[Len(args)] \in ValueTakingFlags)
          => (flags' = flags /\ i' = i + 1 /\ i' = Len(args) /\ pc' = "scan")]_vars
    /\ [](Parsed =>
            \A v \in ValueFlags :
                (LastTokenIs(v) /\ ScannedOccurrences(v.names) = {}) =>
                    /\ flags[v.field] = PreCli[v.field]
                    /\ \A c \in CliOf(v) : ~flags[c]
                    /\ i = Len(args))

\* the scan has just passed a value-taking flag at the end of args whose
\* field the environment had set
LastFlagIgnoredWitness ==
    /\ pc = "scan"
    /\ i = Len(args)
    /\ \E v \in ValueFlags :
        /\ LastTokenIs(v)
        /\ CliOf(v) # {}
        /\ ScannedOccurrences(v.names) = {}
        /\ flags[v.field] = PreCli[v.field]
        /\ flags[v.field] # <<>>
        /\ \A c \in CliOf(v) : ~flags[c]

(***************************************************************************)
(* C9                                                                      *)
(***************************************************************************)
\* the scan reads one of the names in flag position
ScannedFlag(names) == \E n \in 1..Len(args) : args[n] \in names /\ InFlagPos(args, n)

\* C9: no step of the scan changes a boolean field from true to false, and
\* the final value of each boolean field is its value before the scan OR-ed
\* with whether its flag was read in flag position.
BoolOnlyForcedTrue ==
    /\ [][pc = "scan" => \A b \in BoolFlags : flags[b.field] => flags'[b.field]]_vars
    /\ [](Parsed =>
            LET pre == PreCli IN
            \A b \in BoolFlags : flags[b.field] <=> (pre[b.field] \/ ScannedFlag(b.names)))

\* booleans set by the environment stay true through a scan that sets another
\* boolean and reads the flag of a true one again
BoolOnlyForcedTrueWitness ==
    /\ Parsed
    /\ PreCli.headed /\ PreCli.auto_connect
    /\ ScannedFlag({"--headed"})
    /\ flags.headed /\ flags.auto_connect
    /\ \E b \in BoolFlags : ~PreCli[b.field] /\ flags[b.field]
    /\ \E b \in BoolFlags : ~flags[b.field]

(***************************************************************************)
(* C6                                                                      *)
(***************************************************************************)
\* the members a config file contributes: those of its JSON object, none
\* when the file is missing, unreadable, not JSON or not an object
LayerMembers(file) ==
    IF file.kind = "json" /\ file.v.t = "obj" THEN file.v.o ELSE EmptyMap

\* the user-level file, if the home directory resolves
UserFile ==
    LET home == or_else(env_var(env, "HOME"), env_var(env, "USERPROFILE")) IN
    IF home = None THEN Missing ELSE fs[home[1]]

\* the project-level file
ProjectFile == fs[Cwd]

\* the user members overlaid one level deep with the project members
Overlay(user, project) ==
    [key \in DOMAIN user \cup DOMAIN project |->
        IF key \in DOMAIN project THEN project[key] ELSE user[key]]

\* C6: load_config treats every bad layer as absent and returns the JSON
\* object of the user layer's keys overlaid with the project layer's keys.
LoadConfigOverlaysLayers ==
    pc # "load" =>
        config = JObj(Overlay(LayerMembers(UserFile), LayerMembers(ProjectFile)))

====
